---- MODULE Spec2Model ----
\* Job-application tracking backend (src/backend): the status state machines,
\* the role / ownership / credential-generation gates and the handlers that
\* compose them, with the relational store as sequences of rows (a row's
\* primary key is its position; no handler deletes a row).
EXTENDS Naturals, Sequences, FiniteSets, Bags, TLC

VARIABLES users, tokens, candidates, jobs, applications, interviews,
          feedback, notifications, audit_logs, last, inflight

vars == <<users, tokens, candidates, jobs, applications, interviews,
          feedback, notifications, audit_logs, last, inflight>>

\* The store as one value: what a handler reads, and what it commits
DB ==
    [users |-> users, candidates |-> candidates, jobs |-> jobs,
     applications |-> applications, interviews |-> interviews,
     feedback |-> feedback, notifications |-> notifications,
     audit_logs |-> audit_logs]

---------------------------------------------------------------------------
\* Bounds of the model

\* rows per table in the single-application lifecycle (Spec), and jobs everywhere
MaxRows == 1
\* applications in SpecApply
MaxApps == 2
\* interviews in SpecInterview
MaxInterviews == 2
\* audit rows in SpecAuth (one per password change, role change, deactivation, restore)
MaxAudit == 3
\* accounts registered in SpecAccounts
MaxRegistered == 1
MaxInflight == 2

\* A value a client leaves out of a request body (Python's None)
NULL == "NULL"

Dates == {"T1", "T2"}

---------------------------------------------------------------------------
\* Transition tables (main.py 45-63)

\* a faulty table: an open job can be taken back to draft
JOB_TRANSITIONS_BackToDraft ==
    [draft |-> {"open", "archived"},
     open |-> {"closed", "draft"},
     closed |-> {"archived"},
     archived |-> {}]

\* a faulty table: a draft job can no longer be archived
JOB_TRANSITIONS_DraftCannotArchive ==
    [draft |-> {"open"},
     open |-> {"closed"},
     closed |-> {"archived"},
     archived |-> {}]

JOB_TRANSITIONS ==
    [draft |-> {"open", "archived"},
     open |-> {"closed"},
     closed |-> {"archived"},
     archived |-> {}]

APP_TRANSITIONS ==
    [applied |-> {"shortlisted", "rejected"},
     shortlisted |-> {"interview_scheduled", "rejected"},
     interview_scheduled |-> {"hired", "rejected"},
     rejected |-> {},
     hired |-> {}]

INTERVIEW_TRANSITIONS ==
    [scheduled |-> {"rescheduled", "completed", "cancelled"},
     rescheduled |-> {"completed", "cancelled"},
     completed |-> {},
     cancelled |-> {}]

\* dict.get(key, set())
Get(table, key) == IF key \in DOMAIN table THEN table[key] ELSE {}

JobEdges(from) == Get(JOB_TRANSITIONS, from)
AppEdges(from) == Get(APP_TRANSITIONS, from)
InterviewEdges(from) == Get(INTERVIEW_TRANSITIONS, from)

\* Python truthiness of an optional string: None and "" are falsy
Truthy(s) == s \notin {NULL, ""}

---------------------------------------------------------------------------
\* Credentials (authentication.py)

\* authentication.py 18-23: bcrypt; the stored value is never the plain password
hash_password(password) == <<"bcrypt", password>>

verify_password(plain_password, hashed_password) ==
    hashed_password = hash_password(plain_password)

create_access_token(user_id, role, token_version) ==
    [type |-> "access", sub |-> user_id, role |-> role,
     token_version |-> token_version]

create_refresh_token(user_id, token_version) ==
    [type |-> "refresh", sub |-> user_id, role |-> NULL,
     token_version |-> token_version]

\* the dict get_current_user returns for an access token
get_current_user(tok) ==
    [user_id |-> tok.sub, role |-> tok.role, token_version |-> tok.token_version]

\* _current_db_user raises 401 when the generations differ
CredentialIsStale(current) ==
    users[current.user_id].token_version # current.token_version

\* authorize.py
require_roles(roles, current) == current.role \in roles

enforce_self_or_admin(current, target_user_id) ==
    current.role = "admin" \/ current.user_id = target_user_id

\* owner_hr_id is nullable (Models.py 61): the id no user has stands for None,
\* which Python compares unequal to every user id
NoUser == 0

\* a faulty check: a job without owner is open to every actor
enforce_owner_or_admin_AbsentIsOpen(current, owner_user_id) ==
    current.role = "admin" \/ owner_user_id = NoUser \/ current.user_id = owner_user_id

enforce_owner_or_admin(current, owner_user_id) ==
    current.role = "admin" \/ current.user_id = owner_user_id

---------------------------------------------------------------------------
\* Responses: the status code and the detail of the HTTPException raised, or 200

HTTPException(status_code, detail) == [status_code |-> status_code, detail |-> detail]

OK == [status_code |-> 200, detail |-> "ok"]

\* authentication.py 66-67
AccessTokenRequired == HTTPException(401, "Access token required")
\* main.py 75-76
TokenExpired == HTTPException(401, "Token expired after security update")
\* authorize.py 6-7
InsufficientPermissions == HTTPException(403, "Insufficient permissions")
\* authorize.py 23-24
OwnerPermissionRequired == HTTPException(403, "Owner permission required")

\* What one request comes to: the response, the store it leaves committed and
\* the credentials it hands to the client
Raise(response) == [response |-> response, db |-> DB, issued |-> {}]
Return(db) == [response |-> OK, db |-> db, issued |-> {}]

\* db.commit()
Store(db) ==
    /\ users' = db.users
    /\ candidates' = db.candidates
    /\ jobs' = db.jobs
    /\ applications' = db.applications
    /\ interviews' = db.interviews
    /\ feedback' = db.feedback
    /\ notifications' = db.notifications
    /\ audit_logs' = db.audit_logs

\* an exception no handler catches (a constraint violated at commit)
InternalServerError == HTTPException(500, "Internal Server Error")

\* a handler that runs from its first line to its response with no other
\* request in between: its commit and the response
Commit(out) ==
    /\ Store(out.db)
    /\ tokens' = tokens \cup out.issued
    /\ last' = out.response
    /\ inflight' = inflight

---------------------------------------------------------------------------
\* Rows and helpers

Notification(candidate_id, message, notification_type, app_id) ==
    [candidate_id |-> candidate_id, message |-> message,
     notification_type |-> notification_type,
     related_application_id |-> app_id]

\* _notify: one more row in candidate_notifications
\* a faulty helper: the row is built but never added to the session
Notify_Dropped(notifs, candidate_id, message, notification_type, app_id) == notifs

Notify(notifs, candidate_id, message, notification_type, app_id) ==
    notifs (+) SetToBag({Notification(candidate_id, message, notification_type, app_id)})

\* db.query(Candidate).filter(Candidate.user_id == uid).first()
\* a faulty query: the profile is not filtered by user
CandidateOf_AnyProfile(user_id) == DOMAIN candidates

CandidateOf(user_id) ==
    {c \in DOMAIN candidates : candidates[c].user_id = user_id}

---------------------------------------------------------------------------
\* Checks the handlers make, each as the code writes it

\* main.py 274: payload.job_status not in JOB_TRANSITIONS.get(row.job_status, set())
JobTransitionRefused(from, to) == to \notin JobEdges(from)

\* a faulty check: any status the table knows is accepted
AppTransitionRefused_KnownStatusOnly(from, to) == to \notin DOMAIN APP_TRANSITIONS

\* main.py 362
AppTransitionRefused(from, to) == to \notin AppEdges(from)

\* main.py 430: payload.interview_status and payload.interview_status not in ...
InterviewTransitionRefused(from, to) == Truthy(to) /\ to \notin InterviewEdges(from)

\* a faulty query: only applications still in status applied count
DuplicateApplication_AppliedOnly(job_id, candidate_id) ==
    {a \in DOMAIN applications :
        /\ applications[a].job_id = job_id
        /\ applications[a].candidate_id = candidate_id
        /\ applications[a].application_status = "applied"}

\* main.py 311-315: the duplicate query of apply_job
DuplicateApplication(job_id, candidate_id) ==
    {a \in DOMAIN applications :
        /\ applications[a].job_id = job_id
        /\ applications[a].candidate_id = candidate_id}

\* a faulty query: the status filter is missing
InterviewConflict_AnyStatus(interviewer_id, interview_date) ==
    {i \in DOMAIN interviews :
        /\ interviews[i].interviewer_id = interviewer_id
        /\ interviews[i].interview_date = interview_date}

\* main.py 396-404: the calendar query of create_interview
InterviewConflict(interviewer_id, interview_date) ==
    {i \in DOMAIN interviews :
        /\ interviews[i].interviewer_id = interviewer_id
        /\ interviews[i].interview_date = interview_date
        /\ interviews[i].interview_status \in {"scheduled", "rescheduled"}}

\* a faulty query: filters on the interviewer column instead of the interview
FeedbackFor_ByInterviewer(interview_id) ==
    {f \in DOMAIN feedback : feedback[f].interviewer_id = interview_id}

\* main.py 453: the write-once query of submit_feedback
FeedbackFor(interview_id) ==
    {f \in DOMAIN feedback : feedback[f].interview_id = interview_id}

\* a faulty write: the parent application keeps the status it needed before
InterviewParentStatus_Shortlisted == "shortlisted"

\* main.py 415: the status create_interview writes into the parent application
InterviewParentStatus == "interview_scheduled"

---------------------------------------------------------------------------
\* Jobs (main.py 239-278)

create_job_result(tok) ==
    LET current == get_current_user(tok) IN
    IF tok.type # "access" THEN AccessTokenRequired
    ELSE IF CredentialIsStale(current) THEN TokenExpired
    ELSE IF ~require_roles({"hr", "admin"}, current) THEN InsufficientPermissions
    ELSE OK

create_job_run(tok) ==
    LET current == get_current_user(tok)
        res == create_job_result(tok) IN
    IF res # OK THEN Raise(res)
    ELSE Return([DB EXCEPT !.jobs = Append(@, [owner_hr_id |-> current.user_id,
                                               job_status |-> "draft"])])

create_job(tok) == Commit(create_job_run(tok))

update_job_state_result(tok, job_id, job_status) ==
    LET current == get_current_user(tok) IN
    IF tok.type # "access" THEN AccessTokenRequired
    ELSE IF CredentialIsStale(current) THEN TokenExpired
    ELSE IF job_id \notin DOMAIN jobs THEN HTTPException(404, "Job not found")
    ELSE IF ~enforce_owner_or_admin(current, jobs[job_id].owner_hr_id)
         THEN OwnerPermissionRequired
    ELSE IF JobTransitionRefused(jobs[job_id].job_status, job_status)
         THEN HTTPException(400, "Invalid job state transition")
    ELSE OK

update_job_state_run(tok, job_id, job_status) ==
    LET res == update_job_state_result(tok, job_id, job_status) IN
    IF res # OK THEN Raise(res)
    ELSE Return([DB EXCEPT !.jobs[job_id].job_status = job_status])

update_job_state(tok, job_id, job_status) ==
    Commit(update_job_state_run(tok, job_id, job_status))

---------------------------------------------------------------------------
\* Applications (main.py 296-382)

apply_job_result(tok, job_id) ==
    LET current == get_current_user(tok) IN
    IF tok.type # "access" THEN AccessTokenRequired
    ELSE IF CredentialIsStale(current) THEN TokenExpired
    ELSE IF ~require_roles({"candidate"}, current) THEN InsufficientPermissions
    ELSE IF CandidateOf(current.user_id) = {}
         THEN HTTPException(400, "Candidate profile not found")
    ELSE IF job_id \notin DOMAIN jobs THEN HTTPException(404, "Job not found")
    ELSE IF jobs[job_id].job_status # "open"
         THEN HTTPException(400, "Only open jobs accept applications")
    ELSE IF DuplicateApplication(job_id, CHOOSE c \in CandidateOf(current.user_id) : TRUE) # {}
         THEN HTTPException(400, "Duplicate application not allowed")
    ELSE OK

\* main.py 319-321: the first commit of apply_job
ApplyInserted(db, candidate_id, job_id) ==
    [db EXCEPT !.applications = Append(@, [candidate_id |-> candidate_id,
                                           job_id |-> job_id,
                                           application_status |-> "applied"])]

\* main.py 323-324: the second commit of apply_job
ApplyNotified(db, candidate_id, app_id) ==
    [db EXCEPT !.notifications = Notify(@, candidate_id, <<"Application submitted">>,
                                        "info", app_id)]

\* The insert is committed (321) and then the notification (323-324); here
\* the request runs through both with no other request in between.
apply_job_run(tok, job_id) ==
    LET current == get_current_user(tok)
        res == apply_job_result(tok, job_id)
        candidate_id == CHOOSE c \in CandidateOf(current.user_id) : TRUE
        app_id == Len(applications) + 1 IN
    IF res # OK THEN Raise(res)
    ELSE Return(ApplyNotified(ApplyInserted(DB, candidate_id, job_id),
                              candidate_id, app_id))

apply_job(tok, job_id) == Commit(apply_job_run(tok, job_id))

\* apply_job among other requests: each commit is a step of its own, and the
\* request is in flight between them.
\* main.py 297-322: the checks, the insert and its commit, db.refresh
apply_job_insert(tok, job_id) ==
    LET current == get_current_user(tok)
        res == apply_job_result(tok, job_id)
        candidate_id == CHOOSE c \in CandidateOf(current.user_id) : TRUE IN
    IF res # OK THEN Commit(Raise(res))
    ELSE /\ Store(ApplyInserted(DB, candidate_id, job_id))
         /\ inflight' = inflight \cup {[op |-> "apply_job",
                                        candidate_id |-> candidate_id,
                                        application_id |-> Len(applications) + 1]}
         /\ UNCHANGED <<tokens, last>>

\* main.py 323-325: the notification, its commit and the response
apply_job_notify(request) ==
    /\ request \in inflight /\ request.op = "apply_job"
    /\ Store(ApplyNotified(DB, request.candidate_id, request.application_id))
    /\ inflight' = inflight \ {request}
    /\ last' = OK
    /\ UNCHANGED tokens

\* the request ends between the two commits (the second commit raises, the
\* connection or the process is lost): the framework answers 500 and the
\* session's uncommitted rows are discarded
apply_job_fail(request) ==
    /\ request \in inflight /\ request.op = "apply_job"
    /\ Store(DB)
    /\ inflight' = inflight \ {request}
    /\ last' = InternalServerError
    /\ UNCHANGED tokens

\* main.py 331-343: the rows list_applications returns to a stored user,
\* each row with its primary key
\* a faulty filter: an hr user is shown the applications of every job
ApplicationsFor_HrSeesAll(d, user_id) ==
    LET role == d.users[user_id].role
        shown ==
          IF role \in {"admin", "hr"} THEN DOMAIN d.applications
          ELSE IF role = "candidate"
               THEN {a \in DOMAIN d.applications :
                       \E c \in DOMAIN d.candidates :
                          /\ d.candidates[c].user_id = user_id
                          /\ d.applications[a].candidate_id = c}
          ELSE {}
    IN {<<a, d.applications[a]>> : a \in shown}

ApplicationsFor(d, user_id) ==
    LET role == d.users[user_id].role
        shown ==
          IF role = "admin" THEN DOMAIN d.applications
          ELSE IF role = "candidate"
               THEN {a \in DOMAIN d.applications :
                       \E c \in DOMAIN d.candidates :
                          /\ d.candidates[c].user_id = user_id
                          /\ d.applications[a].candidate_id = c}
          ELSE IF role = "hr"
               THEN {a \in DOMAIN d.applications :
                       /\ d.applications[a].job_id \in DOMAIN d.jobs
                       /\ d.jobs[d.applications[a].job_id].owner_hr_id = user_id}
          ELSE {}
    IN {<<a, d.applications[a]>> : a \in shown}

Listed(rows) == [status_code |-> 200, detail |-> "ok", applications |-> rows]

list_applications_result(tok) ==
    LET current == get_current_user(tok) IN
    IF tok.type # "access" THEN AccessTokenRequired
    ELSE IF CredentialIsStale(current) THEN TokenExpired
    ELSE Listed(ApplicationsFor(DB, current.user_id))

list_applications_run(tok) ==
    [response |-> list_applications_result(tok), db |-> DB, issued |-> {}]

list_applications(tok) == Commit(list_applications_run(tok))

\* update_application_state on the store d, which the bulk handlers call once
\* per id on what the calls before it committed (main.py 353-367). No handler
\* in the loop writes users or jobs.
UpdateAppResult(apps, tok, application_id, application_status) ==
    LET current == get_current_user(tok) IN
    IF tok.type # "access" THEN AccessTokenRequired
    ELSE IF CredentialIsStale(current) THEN TokenExpired
    ELSE IF ~require_roles({"hr", "admin"}, current) THEN InsufficientPermissions
    ELSE IF application_id \notin DOMAIN apps
         THEN HTTPException(404, "Application not found")
    ELSE IF ~enforce_owner_or_admin(current, jobs[apps[application_id].job_id].owner_hr_id)
         THEN OwnerPermissionRequired
    ELSE IF AppTransitionRefused(apps[application_id].application_status, application_status)
         THEN HTTPException(400, "Invalid application transition")
    ELSE OK

UpdateAppRun(d, tok, application_id, application_status) ==
    LET res == UpdateAppResult(d.applications, tok, application_id, application_status) IN
    IF res # OK THEN [response |-> res, db |-> d, issued |-> {}]
    ELSE [response |-> OK,
          db |-> [d EXCEPT
                    !.applications[application_id].application_status = application_status,
                    !.notifications =
                        Notify(@, d.applications[application_id].candidate_id,
                               <<"Application moved to", application_status>>,
                               "action_required", application_id)],
          issued |-> {}]

update_application_state_run(tok, application_id, application_status) ==
    UpdateAppRun(DB, tok, application_id, application_status)

update_application_state(tok, application_id, application_status) ==
    Commit(update_application_state_run(tok, application_id, application_status))

\* main.py 373-374 / 380-381: the loop. An exception raised by one call leaves
\* the loop, and what the calls before it committed stays.
RECURSIVE BulkLoop(_, _, _, _)
BulkLoop(out, tok, application_ids, application_status) ==
    IF application_ids = <<>> \/ out.response # OK THEN out
    ELSE BulkLoop(UpdateAppRun(out.db, tok, Head(application_ids), application_status),
                  tok, Tail(application_ids), application_status)

\* main.py 375 / 382: the body returned when the loop ends normally
BulkUpdated(application_ids) ==
    [status_code |-> 200, detail |-> "ok", updated |-> Len(application_ids)]

\* a faulty batch: one transaction, undone as a whole when a call fails
BulkRun_Atomic(tok, application_ids, application_status) ==
    IF tok.type # "access" THEN Raise(AccessTokenRequired)
    ELSE LET out == BulkLoop(Return(DB), tok, application_ids, application_status) IN
         IF out.response = OK THEN [out EXCEPT !.response = BulkUpdated(application_ids)]
         ELSE Raise(out.response)

\* The route itself depends on get_current_user alone: with no id in the list
\* nothing else is checked.
BulkRun(tok, application_ids, application_status) ==
    IF tok.type # "access" THEN Raise(AccessTokenRequired)
    ELSE LET out == BulkLoop(Return(DB), tok, application_ids, application_status) IN
         IF out.response = OK THEN [out EXCEPT !.response = BulkUpdated(application_ids)]
         ELSE out

bulk_shortlist_run(tok, application_ids) == BulkRun(tok, application_ids, "shortlisted")
bulk_shortlist(tok, application_ids) == Commit(bulk_shortlist_run(tok, application_ids))

bulk_reject_run(tok, application_ids) == BulkRun(tok, application_ids, "rejected")
bulk_reject(tok, application_ids) == Commit(bulk_reject_run(tok, application_ids))

---------------------------------------------------------------------------
\* Interviews and feedback (main.py 385-466)

create_interview_result(tok, application_id, interviewer_id, interview_date) ==
    LET current == get_current_user(tok) IN
    IF tok.type # "access" THEN AccessTokenRequired
    ELSE IF CredentialIsStale(current) THEN TokenExpired
    ELSE IF ~require_roles({"hr", "admin"}, current) THEN InsufficientPermissions
    ELSE IF application_id \notin DOMAIN applications
         THEN HTTPException(404, "Application not found")
    ELSE IF ~enforce_owner_or_admin(current,
                jobs[applications[application_id].job_id].owner_hr_id)
         THEN OwnerPermissionRequired
    ELSE IF InterviewConflict(interviewer_id, interview_date) # {}
         THEN HTTPException(400, "Interviewer has a calendar conflict")
    ELSE OK

create_interview_run(tok, application_id, interviewer_id, interview_date, interview_type) ==
    LET res == create_interview_result(tok, application_id, interviewer_id, interview_date) IN
    IF res # OK THEN Raise(res)
    ELSE Return([DB EXCEPT
                   !.interviews = Append(@, [application_id |-> application_id,
                                             interview_date |-> interview_date,
                                             interview_type |-> interview_type,
                                             interviewer_id |-> interviewer_id,
                                             interview_status |-> "scheduled"]),
                   !.applications[application_id].application_status = InterviewParentStatus,
                   !.notifications = Notify(@, applications[application_id].candidate_id,
                                            <<"Interview scheduled">>, "info",
                                            application_id)])

create_interview(tok, application_id, interviewer_id, interview_date, interview_type) ==
    Commit(create_interview_run(tok, application_id, interviewer_id, interview_date,
                                interview_type))

update_interview_result(tok, interview_id, payload) ==
    LET current == get_current_user(tok) IN
    IF tok.type # "access" THEN AccessTokenRequired
    ELSE IF CredentialIsStale(current) THEN TokenExpired
    ELSE IF interview_id \notin DOMAIN interviews
         THEN HTTPException(404, "Interview not found")
    ELSE IF InterviewTransitionRefused(interviews[interview_id].interview_status,
                                       payload.interview_status)
         THEN HTTPException(400, "Invalid interview transition")
    ELSE OK

\* main.py 433-438: each field that is not None is written
UpdatedInterview(row, payload) ==
    [row EXCEPT
       !.interview_date = IF payload.interview_date # NULL
                          THEN payload.interview_date ELSE @,
       !.interview_type = IF payload.interview_type # NULL
                          THEN payload.interview_type ELSE @,
       !.interview_status = IF payload.interview_status # NULL
                            THEN payload.interview_status ELSE @]

update_interview_run(tok, interview_id, payload) ==
    LET res == update_interview_result(tok, interview_id, payload) IN
    IF res # OK THEN Raise(res)
    ELSE Return([DB EXCEPT !.interviews[interview_id] = UpdatedInterview(@, payload)])

update_interview(tok, interview_id, payload) ==
    Commit(update_interview_run(tok, interview_id, payload))

submit_feedback_result(tok, interview_id) ==
    LET current == get_current_user(tok) IN
    IF tok.type # "access" THEN AccessTokenRequired
    ELSE IF CredentialIsStale(current) THEN TokenExpired
    ELSE IF ~require_roles({"interviewer"}, current) THEN InsufficientPermissions
    ELSE IF interview_id \notin DOMAIN interviews
         THEN HTTPException(404, "Interview not found")
    ELSE IF interviews[interview_id].interviewer_id # current.user_id
         THEN HTTPException(403, "Only assigned interviewer can submit feedback")
    ELSE IF FeedbackFor(interview_id) # {} THEN HTTPException(400, "Feedback is write-once")
    ELSE OK

submit_feedback_run(tok, interview_id, payload) ==
    LET current == get_current_user(tok)
        res == submit_feedback_result(tok, interview_id) IN
    IF res # OK THEN Raise(res)
    ELSE Return([DB EXCEPT
                   !.feedback = Append(@, [interview_id |-> interview_id,
                                           interviewer_id |-> current.user_id,
                                           rating |-> payload.rating,
                                           comments |-> payload.comments,
                                           recommendation |-> payload.recommendation])])

submit_feedback(tok, interview_id, payload) ==
    Commit(submit_feedback_run(tok, interview_id, payload))

---------------------------------------------------------------------------
\* Requests served at the same time. Each request has a session of its own
\* (Database.py 10-15) on a PostgreSQL engine (Database.py 4-6): the queries
\* of a handler read what is committed when they run, its ORM objects keep
\* what was loaded, and db.commit() writes the new rows and the attributes
\* that differ from what was loaded. A handler is taken in two steps, its
\* queries and checks (read) and its commit (write), and the request is in
\* flight between them. Models.py declares no constraint on applications or
\* interviews that a commit could violate.

RequestId == CHOOSE i \in (1..MaxInflight) \ {r.request_id : r \in inflight} : TRUE

Begin(request) ==
    /\ Store(DB)
    /\ inflight' = inflight \cup {request}
    /\ UNCHANGED <<tokens, last>>

End(request, db) ==
    /\ Store(db)
    /\ inflight' = inflight \ {request}
    /\ last' = OK
    /\ UNCHANGED tokens

\* main.py 298-318
apply_job_read(tok, job_id) ==
    LET current == get_current_user(tok)
        res == apply_job_result(tok, job_id) IN
    IF res # OK THEN Commit(Raise(res))
    ELSE Begin([op |-> "apply_job_write", request_id |-> RequestId,
                candidate_id |-> CHOOSE c \in CandidateOf(current.user_id) : TRUE,
                job_id |-> job_id])

\* main.py 319-325
apply_job_write(request) ==
    /\ request \in inflight /\ request.op = "apply_job_write"
    /\ End(request, ApplyNotified(ApplyInserted(DB, request.candidate_id, request.job_id),
                                  request.candidate_id, Len(applications) + 1))

\* main.py 353-363
update_application_state_read(tok, application_id, application_status) ==
    LET res == UpdateAppResult(applications, tok, application_id, application_status) IN
    IF res # OK THEN Commit(Raise(res))
    ELSE Begin([op |-> "update_application_state_write", request_id |-> RequestId,
                application_id |-> application_id,
                application_status |-> application_status,
                candidate_id |-> applications[application_id].candidate_id])

\* main.py 363-367: UPDATE applications SET application_status = ... WHERE
\* application_id = ..., whatever the row's status has become meanwhile
update_application_state_write(request) ==
    /\ request \in inflight /\ request.op = "update_application_state_write"
    /\ End(request,
           [DB EXCEPT
              !.applications[request.application_id].application_status =
                  request.application_status,
              !.notifications =
                  Notify(@, request.candidate_id,
                         <<"Application moved to", request.application_status>>,
                         "action_required", request.application_id)])

\* main.py 387-407
create_interview_read(tok, application_id, interviewer_id, interview_date, interview_type) ==
    LET res == create_interview_result(tok, application_id, interviewer_id, interview_date) IN
    IF res # OK THEN Commit(Raise(res))
    ELSE Begin([op |-> "create_interview_write", request_id |-> RequestId,
                application_id |-> application_id,
                interviewer_id |-> interviewer_id,
                interview_date |-> interview_date,
                interview_type |-> interview_type,
                loaded |-> applications[application_id]])

\* main.py 408-420: the application's status is written when it differs from
\* the status loaded
create_interview_write(request) ==
    /\ request \in inflight /\ request.op = "create_interview_write"
    /\ End(request,
           [DB EXCEPT
              !.interviews = Append(@, [application_id |-> request.application_id,
                                        interview_date |-> request.interview_date,
                                        interview_type |-> request.interview_type,
                                        interviewer_id |-> request.interviewer_id,
                                        interview_status |-> "scheduled"]),
              !.applications[request.application_id].application_status =
                  IF request.loaded.application_status = InterviewParentStatus
                  THEN @ ELSE InterviewParentStatus,
              !.notifications = Notify(@, request.loaded.candidate_id,
                                       <<"Interview scheduled">>, "info",
                                       request.application_id)])

\* main.py 425-431
update_interview_read(tok, interview_id, payload) ==
    LET res == update_interview_result(tok, interview_id, payload) IN
    IF res # OK THEN Commit(Raise(res))
    ELSE Begin([op |-> "update_interview_write", request_id |-> RequestId,
                interview_id |-> interview_id, payload |-> payload,
                loaded |-> interviews[interview_id]])

\* main.py 433-440: each field that is not None and differs from the loaded
\* value is written
update_interview_write(request) ==
    /\ request \in inflight /\ request.op = "update_interview_write"
    /\ LET payload == request.payload
           loaded == request.loaded IN
       End(request,
           [DB EXCEPT
              !.interviews[request.interview_id] =
                  [@ EXCEPT
                     !.interview_date =
                        IF payload.interview_date \notin {NULL, loaded.interview_date}
                        THEN payload.interview_date ELSE @,
                     !.interview_type =
                        IF payload.interview_type \notin {NULL, loaded.interview_type}
                        THEN payload.interview_type ELSE @,
                     !.interview_status =
                        IF payload.interview_status \notin {NULL, loaded.interview_status}
                        THEN payload.interview_status ELSE @]])

-------------------------------------------------------------------------------------------------------------
\* Accounts and credentials (main.py 66-77, 115-157, 201-236)

\* a faulty helper: the entry is built but never added to the session
Audit_Dropped(logs, user_id, action) == logs

Audit(logs, user_id, action) == Append(logs, [user_id |-> user_id, action |-> action])

\* a faulty check: only the flag is looked at
Inactive_FlagOnly(user) == ~user.is_active

Inactive(user) == user.status # "active" \/ ~user.is_active

\* db.query(User).filter(User.email == email).first(); email is unique
UserByEmail(email) == {u \in DOMAIN users : users[u].email = email}

\* main.py 95-112
register_result(email) ==
    IF UserByEmail(email) # {} THEN HTTPException(400, "Email already exists") ELSE OK

register_run(name, email, password, role) ==
    LET res == register_result(email) IN
    IF res # OK THEN Raise(res)
    ELSE Return([DB EXCEPT
                   !.users = Append(@, [name |-> name, email |-> email,
                                        password |-> hash_password(password),
                                        role |-> role, status |-> "pending",
                                        is_active |-> TRUE, token_version |-> 1])])

register(name, email, password, role) == Commit(register_run(name, email, password, role))

\* users.email is unique (Models.py 14): the commit of a second row with the
\* same email raises
EmailTaken(user_id, email) ==
    \E u \in DOMAIN users : u # user_id /\ users[u].email = email

\* main.py 182-198; the session is closed without commit when a check raises
\* (Database.py 10-15), so the assignments made before it are dropped
update_user_result(tok, user_id, payload) ==
    LET current == get_current_user(tok) IN
    IF tok.type # "access" THEN AccessTokenRequired
    ELSE IF CredentialIsStale(current) THEN TokenExpired
    ELSE IF ~enforce_self_or_admin(current, user_id)
         THEN HTTPException(403, "You can only manage your own profile")
    ELSE IF user_id \notin DOMAIN users THEN HTTPException(404, "User not found")
    ELSE IF payload.status # NULL /\ ~require_roles({"admin"}, current)
         THEN InsufficientPermissions
    ELSE IF payload.email # NULL /\ EmailTaken(user_id, payload.email)
         THEN InternalServerError
    ELSE OK

\* a faulty update: fields the request leaves out are overwritten too
UpdatedUser_Overwrite(row, payload) ==
    [row EXCEPT !.name = payload.name, !.email = payload.email,
                !.status = payload.status]

UpdatedUser(row, payload) ==
    [row EXCEPT
       !.name = IF payload.name # NULL THEN payload.name ELSE @,
       !.email = IF payload.email # NULL THEN payload.email ELSE @,
       !.status = IF payload.status # NULL THEN payload.status ELSE @]

update_user_run(tok, user_id, payload) ==
    LET res == update_user_result(tok, user_id, payload) IN
    IF res # OK THEN Raise(res)
    ELSE Return([DB EXCEPT !.users[user_id] = UpdatedUser(@, payload)])

update_user(tok, user_id, payload) == Commit(update_user_run(tok, user_id, payload))

login_result(email, password) ==
    IF UserByEmail(email) = {} THEN HTTPException(401, "Invalid credentials")
    ELSE LET user == users[CHOOSE u \in UserByEmail(email) : TRUE] IN
         IF ~verify_password(password, user.password)
         THEN HTTPException(401, "Invalid credentials")
         ELSE IF Inactive(user)
         THEN HTTPException(403, "Login blocked for this account state")
         ELSE OK

IssuePair(user_id) ==
    {create_access_token(user_id, users[user_id].role, users[user_id].token_version),
     create_refresh_token(user_id, users[user_id].token_version)}

login_run(email, password) ==
    LET res == login_result(email, password) IN
    IF res # OK THEN Raise(res)
    ELSE [response |-> OK, db |-> DB,
          issued |-> IssuePair(CHOOSE u \in UserByEmail(email) : TRUE)]

login(email, password) == Commit(login_run(email, password))

refresh_result(tok) ==
    IF tok.type # "refresh" THEN HTTPException(401, "Refresh token required")
    ELSE IF tok.sub \notin DOMAIN users THEN HTTPException(404, "User not found")
    ELSE IF tok.token_version # users[tok.sub].token_version
         THEN HTTPException(401, "Refresh token is stale")
    ELSE IF Inactive(users[tok.sub]) THEN HTTPException(403, "Account is not active")
    ELSE OK

refresh_run(tok) ==
    LET res == refresh_result(tok) IN
    IF res # OK THEN Raise(res)
    ELSE [response |-> OK, db |-> DB, issued |-> IssuePair(tok.sub)]

refresh(tok) == Commit(refresh_run(tok))

change_password_result(tok, old_password) ==
    LET current == get_current_user(tok) IN
    IF tok.type # "access" THEN AccessTokenRequired
    ELSE IF CredentialIsStale(current) THEN TokenExpired
    ELSE IF ~verify_password(old_password, users[current.user_id].password)
         THEN HTTPException(400, "Current password is incorrect")
    ELSE OK

change_password_run(tok, old_password, new_password) ==
    LET current == get_current_user(tok)
        res == change_password_result(tok, old_password) IN
    IF res # OK THEN Raise(res)
    ELSE Return([DB EXCEPT
                   !.users[current.user_id].password = hash_password(new_password),
                   !.users[current.user_id].token_version = @ + 1,
                   !.audit_logs = Audit(@, current.user_id, <<"password_changed">>)])

change_password(tok, old_password, new_password) ==
    Commit(change_password_run(tok, old_password, new_password))

\* change_role, deactivate_user and restore_user open alike: the role check on
\* the credential comes first, then the freshness check, then the target lookup
AdminResult(tok, user_id) ==
    LET current == get_current_user(tok) IN
    IF tok.type # "access" THEN AccessTokenRequired
    ELSE IF ~require_roles({"admin"}, current) THEN InsufficientPermissions
    ELSE IF CredentialIsStale(current) THEN TokenExpired
    ELSE IF user_id \notin DOMAIN users THEN HTTPException(404, "User not found")
    ELSE OK

\* a faulty handler: the role is overwritten and the generation left as it is
change_role_run_SameGeneration(tok, user_id, new_role) ==
    LET current == get_current_user(tok)
        res == AdminResult(tok, user_id) IN
    IF res # OK THEN Raise(res)
    ELSE Return([DB EXCEPT
                   !.users[user_id].role = new_role,
                   !.audit_logs = Audit(@, current.user_id,
                                        <<"role_changed", user_id,
                                          users[user_id].role, new_role>>)])

change_role_run(tok, user_id, new_role) ==
    LET current == get_current_user(tok)
        res == AdminResult(tok, user_id) IN
    IF res # OK THEN Raise(res)
    ELSE Return([DB EXCEPT
                   !.users[user_id].role = new_role,
                   !.users[user_id].token_version = @ + 1,
                   !.audit_logs = Audit(@, current.user_id,
                                        <<"role_changed", user_id,
                                          users[user_id].role, new_role>>)])

change_role(tok, user_id, new_role) == Commit(change_role_run(tok, user_id, new_role))

deactivate_user_run(tok, user_id) ==
    LET current == get_current_user(tok)
        res == AdminResult(tok, user_id) IN
    IF res # OK THEN Raise(res)
    ELSE Return([DB EXCEPT
                   !.users[user_id].is_active = FALSE,
                   !.users[user_id].status = "inactive",
                   !.users[user_id].token_version = @ + 1,
                   !.audit_logs = Audit(@, current.user_id,
                                        <<"user_deactivated", user_id>>)])

deactivate_user(tok, user_id) == Commit(deactivate_user_run(tok, user_id))

restore_user_run(tok, user_id) ==
    LET current == get_current_user(tok)
        res == AdminResult(tok, user_id) IN
    IF res # OK THEN Raise(res)
    ELSE Return([DB EXCEPT
                   !.users[user_id].is_active = TRUE,
                   !.users[user_id].status = "active",
                   !.audit_logs = Audit(@, current.user_id,
                                        <<"user_restored", user_id>>)])

restore_user(tok, user_id) == Commit(restore_user_run(tok, user_id))

-----------------------------------------
\* Requests: what a client may send

JobIds == 1..MaxRows
AppIds == 1..MaxApps
InterviewIds == 1..MaxInterviews

JobStatusInputs == {"draft", "open", "closed", "archived", "reopened"}
AppStatusInputs ==
    {"applied", "shortlisted", "interview_scheduled", "rejected", "hired", "withdrawn"}
InterviewStatusInputs == {NULL, "", "scheduled", "rescheduled", "completed", "cancelled"}

\* a status alone, or nothing at all
StatusUpdates ==
    [interview_status : InterviewStatusInputs,
     interview_date : {NULL},
     interview_type : {NULL}]

\* a status, a date, both or neither
InterviewUpdates ==
    [interview_status : InterviewStatusInputs,
     interview_date : Dates \cup {NULL},
     interview_type : {NULL}]

FeedbackInputs ==
    {[rating |-> 5, comments |-> "strong", recommendation |-> "recommended"],
     [rating |-> 1, comments |-> "weak", recommendation |-> "not_recommended"]}

\* lists of ids of length 0, 1 or 2
BulkInputs(ids) == {<<>>} \cup {<<a>> : a \in ids} \cup {<<a, b>> : a \in ids, b \in ids}

\* users that create_interview is asked to book
InterviewerInputs == {2, 3}

\* a request that would add a row is explored only while the table has room
Room(res, table, max) == res = OK => Len(table) < max

---------------------------------------------------------------------------
\* The seeded store: five accounts (an admin, an hr user, an interviewer, two
\* candidates with their profiles) that have logged in; the hr user has changed
\* password once since a first login, so one credential of generation 1 is
\* still in a client's hands.

User(role, email, token_version) ==
    [name |-> "name", role |-> role, status |-> "active", is_active |-> TRUE,
     token_version |-> token_version, email |-> email, password |-> hash_password("pw")]

SeedUsers ==
    <<User("admin", "a@x", 1), User("hr", "h@x", 2), User("interviewer", "i@x", 1),
      User("candidate", "c@x", 1), User("candidate", "d@x", 1)>>

SeedTokens ==
    {create_access_token(u, SeedUsers[u].role, SeedUsers[u].token_version) :
        u \in DOMAIN SeedUsers}
    \cup {create_access_token(2, "hr", 1)}

\* the hr user has changed password once: generation 2 and one audit row
SeedAudit == <<[user_id |-> 2, action |-> <<"password_changed">>]>>

Init ==
    /\ users = SeedUsers
    /\ tokens = SeedTokens
    /\ candidates = <<[user_id |-> 5], [user_id |-> 4]>>
    /\ jobs = <<>>
    /\ applications = <<>>
    /\ interviews = <<>>
    /\ feedback = <<>>
    /\ notifications = EmptyBag
    /\ audit_logs = SeedAudit
    /\ last = OK
    /\ inflight = {}

\* Spec: the lifecycle of one job, one application and one interview (booked
\* with the interviewer at T1), through every handler that writes a status.
Next ==
    \E tok \in tokens :
        \/ Room(create_job_result(tok), jobs, MaxRows) /\ create_job(tok)
        \/ \E j \in JobIds, to \in JobStatusInputs : update_job_state(tok, j, to)
        \/ \E j \in JobIds :
              Room(apply_job_result(tok, j), applications, MaxRows) /\ apply_job(tok, j)
        \/ \E a \in 1..MaxRows, to \in AppStatusInputs : update_application_state(tok, a, to)
        \/ \E ids \in BulkInputs(1..MaxRows) : bulk_shortlist(tok, ids)
        \/ \E ids \in BulkInputs(1..MaxRows) : bulk_reject(tok, ids)
        \/ \E a \in 1..MaxRows :
              /\ Room(create_interview_result(tok, a, 3, "T1"), interviews, MaxRows)
              /\ create_interview(tok, a, 3, "T1", "HR")
        \/ \E i \in 1..MaxRows, p \in StatusUpdates : update_interview(tok, i, p)

Spec == Init /\ [][Next]_vars

\* SpecApply: one job and the applications of the two candidates to it.
NextApply ==
    \E tok \in tokens :
        \/ Room(create_job_result(tok), jobs, MaxRows) /\ create_job(tok)
        \/ \E j \in JobIds, to \in JobStatusInputs : update_job_state(tok, j, to)
        \/ \E j \in JobIds :
              Room(apply_job_result(tok, j), applications, MaxApps) /\ apply_job(tok, j)
        \/ \E a \in AppIds, to \in AppStatusInputs : update_application_state(tok, a, to)

\* a sixth account: a candidate who has no Candidate profile
InitApply ==
    /\ users = Append(SeedUsers, User("candidate", "e@x", 1))
    /\ tokens = SeedTokens \cup {create_access_token(6, "candidate", 1)}
    /\ candidates = <<[user_id |-> 5], [user_id |-> 4]>>
    /\ jobs = <<>>
    /\ applications = <<>>
    /\ interviews = <<>>
    /\ feedback = <<>>
    /\ notifications = EmptyBag
    /\ audit_logs = SeedAudit
    /\ last = OK
    /\ inflight = {}

SpecApply == InitApply /\ [][NextApply]_vars

\* SpecApplySteps: the same, with apply_job taking its two commits as separate
\* steps between which other requests run and the request may end.
NextApplySteps ==
    \/ \E tok \in tokens :
          \/ Room(create_job_result(tok), jobs, MaxRows) /\ create_job(tok)
          \/ \E j \in JobIds, to \in JobStatusInputs : update_job_state(tok, j, to)
          \/ \E j \in JobIds :
                /\ Room(apply_job_result(tok, j), applications, MaxApps)
                /\ apply_job_insert(tok, j)
          \/ \E a \in AppIds, to \in AppStatusInputs : update_application_state(tok, a, to)
    \/ \E request \in inflight : apply_job_notify(request)
    \/ \E request \in inflight : apply_job_fail(request)

SpecApplySteps == Init /\ [][NextApplySteps]_vars

\* SpecInterview: the interviews of one shortlisted application, and their
\* feedback. The store is the seeded one after the hr user has created and
\* opened a job, the first candidate has applied and the hr user has
\* shortlisted the application.
InitInterview ==
    /\ users = SeedUsers
    /\ tokens = SeedTokens
    /\ candidates = <<[user_id |-> 5], [user_id |-> 4]>>
    /\ jobs = <<[owner_hr_id |-> 2, job_status |-> "open"]>>
    /\ applications = <<[candidate_id |-> 1, job_id |-> 1,
                         application_status |-> "shortlisted"]>>
    /\ interviews = <<>>
    /\ feedback = <<>>
    /\ notifications =
         SetToBag({Notification(1, <<"Application submitted">>, "info", 1),
                   Notification(1, <<"Application moved to", "shortlisted">>,
                                "action_required", 1)})
    /\ audit_logs = SeedAudit
    /\ last = OK
    /\ inflight = {}

NextInterview ==
    \E tok \in tokens :
        \/ \E a \in AppIds, i \in InterviewerInputs, d \in Dates :
              /\ Room(create_interview_result(tok, a, i, d), interviews, MaxInterviews)
              /\ create_interview(tok, a, i, d, "HR")
        \/ \E i \in InterviewIds, p \in InterviewUpdates : update_interview(tok, i, p)
        \/ \E i \in InterviewIds, p \in FeedbackInputs : submit_feedback(tok, i, p)

SpecInterview == InitInterview /\ [][NextInterview]_vars

\* SpecOwner: two open jobs that arrived with their applications, job 1 owned
\* by the hr user and job 2 without owner, and the status updates on them.
InitOwner ==
    /\ users = SeedUsers
    /\ tokens = SeedTokens
    /\ candidates = <<[user_id |-> 5], [user_id |-> 4]>>
    /\ jobs = <<[owner_hr_id |-> 2, job_status |-> "open"],
                [owner_hr_id |-> NoUser, job_status |-> "open"]>>
    /\ applications = <<[candidate_id |-> 1, job_id |-> 1, application_status |-> "applied"],
                        [candidate_id |-> 2, job_id |-> 2, application_status |-> "applied"]>>
    /\ interviews = <<>>
    /\ feedback = <<>>
    /\ notifications =
         SetToBag({Notification(1, <<"Application submitted">>, "info", 1),
                   Notification(2, <<"Application submitted">>, "info", 2)})
    /\ audit_logs = SeedAudit
    /\ last = OK
    /\ inflight = {}

NextOwner ==
    \E tok \in tokens :
        \/ \E j \in DOMAIN jobs, to \in JobStatusInputs : update_job_state(tok, j, to)
        \/ \E a \in DOMAIN applications, to \in AppStatusInputs :
              update_application_state(tok, a, to)

SpecOwner == InitOwner /\ [][NextOwner]_vars

\* SpecBulk: two jobs, one owned by the hr user and one without an owner;
\* candidates apply and the applications are moved by the bulk routes only.
BulkIds == 1..(MaxApps + 1)

InitBulk ==
    /\ users = SeedUsers
    /\ tokens = SeedTokens
    /\ candidates = <<[user_id |-> 5], [user_id |-> 4]>>
    /\ jobs = <<[owner_hr_id |-> 2, job_status |-> "open"],
                [owner_hr_id |-> NoUser, job_status |-> "open"]>>
    /\ applications = <<>>
    /\ interviews = <<>>
    /\ feedback = <<>>
    /\ notifications = EmptyBag
    /\ audit_logs = SeedAudit
    /\ last = OK
    /\ inflight = {}

NextBulk ==
    \E tok \in tokens :
        \/ \E j \in DOMAIN jobs :
              Room(apply_job_result(tok, j), applications, MaxApps) /\ apply_job(tok, j)
        \/ \E ids \in BulkInputs(BulkIds) : bulk_shortlist(tok, ids)
        \/ \E ids \in BulkInputs(BulkIds) : bulk_reject(tok, ids)

SpecBulk == InitBulk /\ [][NextBulk]_vars

\* SpecRace: the requests that check and then write, served at the same time
\* around one open job, an application with an interview and a candidate who
\* has not applied yet.
InitRace ==
    /\ users = SeedUsers
    /\ tokens = {create_access_token(2, "hr", 2), create_access_token(4, "candidate", 1)}
    /\ candidates = <<[user_id |-> 5], [user_id |-> 4]>>
    /\ jobs = <<[owner_hr_id |-> 2, job_status |-> "open"]>>
    /\ applications = <<[candidate_id |-> 1, job_id |-> 1,
                         application_status |-> "interview_scheduled"]>>
    /\ interviews = <<[application_id |-> 1, interview_date |-> "T1",
                       interview_type |-> "HR", interviewer_id |-> 3,
                       interview_status |-> "scheduled"]>>
    /\ feedback = <<>>
    /\ notifications =
         SetToBag({Notification(1, <<"Application submitted">>, "info", 1),
                   Notification(1, <<"Application moved to", "shortlisted">>,
                                "action_required", 1),
                   Notification(1, <<"Interview scheduled">>, "info", 1)})
    /\ audit_logs = SeedAudit
    /\ last = OK
    /\ inflight = {}

\* the requests sent: updates of application 1 and of interview 1, a new
\* interview for application 1 with interviewer 2 at T2, an application
RaceAppStatusInputs == {"shortlisted", "hired", "rejected"}
RaceInterviewUpdates ==
    {p \in StatusUpdates : p.interview_status \in {"rescheduled", "completed"}}

\* the rows the requests in flight are about to insert
Pending(op) == Cardinality({r \in inflight : r.op = op})

NextRace ==
    \/ \E tok \in tokens :
          /\ Cardinality(inflight) < MaxInflight
          /\ \/ \E j \in DOMAIN jobs :
                   /\ Len(applications) + Pending("apply_job_write") <= MaxApps
                   /\ apply_job_read(tok, j)
             \/ \E to \in RaceAppStatusInputs : update_application_state_read(tok, 1, to)
             \/ /\ Len(interviews) + Pending("create_interview_write") <= MaxInterviews
                /\ create_interview_read(tok, 1, 2, "T2", "HR")
             \/ \E p \in RaceInterviewUpdates : update_interview_read(tok, 1, p)
    \/ \E request \in inflight :
          \/ apply_job_write(request)
          \/ update_application_state_write(request)
          \/ create_interview_write(request)
          \/ update_interview_write(request)

SpecRace == InitRace /\ [][NextRace]_vars

\* SpecList: two open jobs, one owned by the hr user and one by the admin;
\* candidates with and without a profile apply, applications move, and every
\* user lists the applications.
InitList ==
    /\ users = Append(SeedUsers, User("candidate", "e@x", 1))
    /\ tokens = SeedTokens \cup {create_access_token(6, "candidate", 1)}
    /\ candidates = <<[user_id |-> 5], [user_id |-> 4]>>
    /\ jobs = <<[owner_hr_id |-> 2, job_status |-> "open"],
                [owner_hr_id |-> 1, job_status |-> "open"]>>
    /\ applications = <<>>
    /\ interviews = <<>>
    /\ feedback = <<>>
    /\ notifications = EmptyBag
    /\ audit_logs = SeedAudit
    /\ last = OK
    /\ inflight = {}

NextList ==
    \E tok \in tokens :
        \/ \E j \in DOMAIN jobs :
              Room(apply_job_result(tok, j), applications, MaxApps) /\ apply_job(tok, j)
        \/ \E a \in DOMAIN applications, to \in AppStatusInputs :
              update_application_state(tok, a, to)
        \/ list_applications(tok)

SpecList == InitList /\ [][NextList]_vars

\* SpecAccounts: a new account is registered, activated by the admin and used
\* to log in, while the admin and a candidate edit that account and the
\* candidate's own.
NewEmails == {"n@x", "a@x"}
AccountLogins == {"n@x", "c@x"}
UpdateTargets == {4, 6}
UserUpdates ==
    [name : {NULL, "renamed"}, email : {NULL, "a@x", "m@x"},
     status : {NULL, "active", "suspended"}]

InitAccounts ==
    /\ users = SeedUsers
    /\ tokens = {create_access_token(1, "admin", 1), create_access_token(4, "candidate", 1)}
    /\ candidates = <<[user_id |-> 5], [user_id |-> 4]>>
    /\ jobs = <<>>
    /\ applications = <<>>
    /\ interviews = <<>>
    /\ feedback = <<>>
    /\ notifications = EmptyBag
    /\ audit_logs = SeedAudit
    /\ last = OK
    /\ inflight = {}

NextAccounts ==
    \/ \E email \in NewEmails :
          /\ Room(register_result(email), users, Len(SeedUsers) + MaxRegistered)
          /\ register("new", email, "pw", "candidate")
    \/ \E email \in AccountLogins : login(email, "pw")
    \/ \E tok \in tokens : refresh(tok)
    \/ \E tok \in tokens, u \in UpdateTargets, payload \in UserUpdates :
          update_user(tok, u, payload)
    \/ \E tok \in tokens :
          /\ Room(AdminResult(tok, 6), audit_logs, MaxAudit)
          /\ deactivate_user(tok, 6)
    \/ \E tok \in tokens :
          /\ Room(AdminResult(tok, 6), audit_logs, MaxAudit)
          /\ restore_user(tok, 6)

SpecAccounts == InitAccounts /\ [][NextAccounts]_vars

---------------------------------------------------------------------------
\* Accounts: logins, refreshes and the operations that bump a generation,
\* around one job, one application and one interview

Passwords == {"pw", "pw2"}
LoginEmails == {"a@x", "h@x"}
RoleInputs == {"hr", "interviewer"}
AuthTargets == {2}

InitAuth ==
    /\ users = [u \in DOMAIN SeedUsers |-> [SeedUsers[u] EXCEPT !.token_version = 1]]
    /\ tokens = {}
    /\ candidates = <<[user_id |-> 5], [user_id |-> 4]>>
    /\ jobs = <<[owner_hr_id |-> 2, job_status |-> "open"]>>
    /\ applications = <<[candidate_id |-> 1, job_id |-> 1,
                         application_status |-> "interview_scheduled"]>>
    /\ interviews = <<[application_id |-> 1, interview_date |-> "T1",
                       interview_type |-> "HR", interviewer_id |-> 3,
                       interview_status |-> "scheduled"]>>
    /\ feedback = <<>>
    /\ notifications =
         SetToBag({Notification(1, <<"Application submitted">>, "info", 1),
                   Notification(1, <<"Application moved to", "shortlisted">>,
                                "action_required", 1),
                   Notification(1, <<"Interview scheduled">>, "info", 1)})
    /\ audit_logs = <<>>
    /\ last = OK
    /\ inflight = {}

NextAuth ==
    \/ \E email \in LoginEmails, password \in Passwords : login(email, password)
    \/ \E tok \in tokens : refresh(tok)
    \/ \E tok \in tokens, old \in Passwords, new \in Passwords :
          /\ Room(change_password_result(tok, old), audit_logs, MaxAudit)
          /\ change_password(tok, old, new)
    \/ \E tok \in tokens, u \in AuthTargets, r \in RoleInputs :
          /\ Room(AdminResult(tok, u), audit_logs, MaxAudit)
          /\ change_role(tok, u, r)
    \/ \E tok \in tokens, u \in AuthTargets :
          /\ Room(AdminResult(tok, u), audit_logs, MaxAudit)
          /\ deactivate_user(tok, u)
    \/ \E tok \in tokens, u \in AuthTargets :
          /\ Room(AdminResult(tok, u), audit_logs, MaxAudit)
          /\ restore_user(tok, u)

SpecAuth == InitAuth /\ [][NextAuth]_vars

---------------------------------------------------------------------------
\* The specification's vocabulary, stated apart from the code's tables

JobGraph ==
    {<<"draft", "open">>, <<"draft", "archived">>, <<"open", "closed">>,
     <<"closed", "archived">>}

AppGraph ==
    {<<"applied", "shortlisted">>, <<"applied", "rejected">>,
     <<"shortlisted", "interview_scheduled">>, <<"shortlisted", "rejected">>,
     <<"interview_scheduled", "hired">>, <<"interview_scheduled", "rejected">>}

InterviewGraph ==
    {<<"scheduled", "rescheduled">>, <<"scheduled", "completed">>,
     <<"scheduled", "cancelled">>, <<"rescheduled", "completed">>,
     <<"rescheduled", "cancelled">>}

Targets(graph) == {e[2] : e \in graph}

Succeeded(response) == response.status_code = 200

InvalidTransition ==
    {HTTPException(400, "Invalid job state transition"),
     HTTPException(400, "Invalid application transition"),
     HTTPException(400, "Invalid interview transition")}

Conflict ==
    {HTTPException(400, "Email already exists"),
     HTTPException(400, "Duplicate application not allowed"),
     HTTPException(400, "Interviewer has a calendar conflict"),
     HTTPException(400, "Feedback is write-once")}

InvalidState == {HTTPException(400, "Only open jobs accept applications")}

PermissionDenied ==
    {InsufficientPermissions, OwnerPermissionRequired,
     HTTPException(403, "You can only manage your own profile"),
     HTTPException(403, "Only assigned interviewer can submit feedback")}

CredentialStale == {TokenExpired}

\* the actor presents an access credential of the stored user's current generation
FreshActor(tok) ==
    tok.type = "access" /\ tok.token_version = users[tok.sub].token_version

ActorRole(tok) == users[tok.sub].role

\* the actor is admin or the owner of job j
OwnsOrAdmin(tok, j) == ActorRole(tok) = "admin" \/ jobs[j].owner_hr_id = tok.sub

MayUpdateJob(tok, j) == FreshActor(tok) /\ OwnsOrAdmin(tok, j)

MayUpdateApp(tok, a) ==
    /\ FreshActor(tok)
    /\ ActorRole(tok) \in {"hr", "admin"}
    /\ OwnsOrAdmin(tok, applications[a].job_id)

StatusOnly(to) == [interview_status |-> to, interview_date |-> NULL, interview_type |-> NULL]

---------------------------------------------------------------------------
\* C1: update-job-state and update-application-state asked for a status that
\* is not an edge from the stored one (the stored status itself, anything from
\* a terminal status, an unknown status) fail and leave every row as it was;
\* the failure is InvalidTransition whenever the request passes the
\* credential, role and ownership checks that come first.
C1_RefusedTransitionChangesNothing ==
    /\ \A tok \in tokens, j \in DOMAIN jobs, to \in JobStatusInputs :
          <<jobs[j].job_status, to>> \notin JobGraph
          => LET out == update_job_state_run(tok, j, to) IN
             /\ ~Succeeded(out.response)
             /\ out.db = DB
             /\ MayUpdateJob(tok, j) => out.response \in InvalidTransition
    /\ \A tok \in tokens, a \in DOMAIN applications, to \in AppStatusInputs :
          <<applications[a].application_status, to>> \notin AppGraph
          => LET out == update_application_state_run(tok, a, to) IN
             /\ ~Succeeded(out.response)
             /\ out.db = DB
             /\ MayUpdateApp(tok, a) => out.response \in InvalidTransition

\* a hired application of an archived job was asked to move and was refused
C1_Witness ==
    /\ last = HTTPException(400, "Invalid application transition")
    /\ \E a \in DOMAIN applications : applications[a].application_status = "hired"
    /\ \E j \in DOMAIN jobs : jobs[j].job_status = "archived"

\* C2: on every edge (from, to) of the three graphs an authorized actor with a
\* fresh credential who asks for `to` at `from` succeeds and the stored status
\* becomes `to`; asked again for the status just reached, the handler refuses.
C2_EdgeAppliedOnce ==
    /\ \A tok \in tokens, j \in DOMAIN jobs :
          MayUpdateJob(tok, j)
          => /\ \A to \in JobStatusInputs :
                   <<jobs[j].job_status, to>> \in JobGraph
                   => LET out == update_job_state_run(tok, j, to) IN
                      /\ Succeeded(out.response)
                      /\ out.db = [DB EXCEPT !.jobs[j].job_status = to]
             /\ jobs[j].job_status \in Targets(JobGraph)
                => ~Succeeded(update_job_state_run(tok, j, jobs[j].job_status).response)
    /\ \A tok \in tokens, a \in DOMAIN applications :
          MayUpdateApp(tok, a)
          => /\ \A to \in AppStatusInputs :
                   <<applications[a].application_status, to>> \in AppGraph
                   => LET out == update_application_state_run(tok, a, to) IN
                      /\ Succeeded(out.response)
                      /\ out.db.applications =
                           [applications EXCEPT ![a].application_status = to]
             /\ applications[a].application_status \in Targets(AppGraph)
                => ~Succeeded(update_application_state_run(
                                  tok, a, applications[a].application_status).response)
    /\ \A tok \in tokens, i \in DOMAIN interviews :
          FreshActor(tok)
          => /\ \A to \in InterviewStatusInputs :
                   <<interviews[i].interview_status, to>> \in InterviewGraph
                   => LET out == update_interview_run(tok, i, StatusOnly(to)) IN
                      /\ Succeeded(out.response)
                      /\ out.db = [DB EXCEPT !.interviews[i].interview_status = to]
             /\ interviews[i].interview_status \in Targets(InterviewGraph)
                => ~Succeeded(update_interview_run(
                                  tok, i, StatusOnly(interviews[i].interview_status)).response)

\* the three machines have each moved along their edges
C2_Witness ==
    /\ Succeeded(last)
    /\ \E j \in DOMAIN jobs : jobs[j].job_status = "closed"
    /\ \E a \in DOMAIN applications : applications[a].application_status = "hired"
    /\ \E i \in DOMAIN interviews : interviews[i].interview_status = "completed"

\* C3: every change of an application's stored status is an edge of the
\* Application graph, whichever handler makes it.
C3_AppStatusFollowsEdges ==
    [][\A a \in DOMAIN applications :
          applications'[a].application_status # applications[a].application_status
          => <<applications[a].application_status,
               applications'[a].application_status>> \in AppGraph]_vars

\* C4: a terminal status (job archived; application rejected or hired;
\* interview completed or cancelled) never changes again.
C4_TerminalAbsorbing ==
    [][ /\ \A j \in DOMAIN jobs :
             jobs[j].job_status = "archived" => jobs'[j].job_status = "archived"
        /\ \A a \in DOMAIN applications :
             applications[a].application_status \in {"rejected", "hired"}
             => applications'[a].application_status = applications[a].application_status
        /\ \A i \in DOMAIN interviews :
             interviews[i].interview_status \in {"completed", "cancelled"}
             => interviews'[i].interview_status = interviews[i].interview_status
      ]_vars

---------------------------------------------------------------------------
\* Credentials issued before a generation bump

\* the credential's embedded generation is no longer the user's
Stale(tok) == tok.token_version # users[tok.sub].token_version

Rejected ==
    CredentialStale \cup {HTTPException(401, "Refresh token is stale")}

\* what each credential-gated operation answers, and what it would store, when
\* handed credential tok
GatedOutcomes(tok) ==
    {create_job_run(tok)}
    \cup {update_job_state_run(tok, j, to) : j \in DOMAIN jobs, to \in JobStatusInputs}
    \cup {apply_job_run(tok, j) : j \in DOMAIN jobs}
    \cup {update_application_state_run(tok, a, to) :
            a \in DOMAIN applications, to \in AppStatusInputs}
    \cup {bulk_shortlist_run(tok, ids) : ids \in BulkInputs(DOMAIN applications)}
    \cup {bulk_reject_run(tok, ids) : ids \in BulkInputs(DOMAIN applications)}
    \cup {create_interview_run(tok, a, I, T, "HR") :
            a \in DOMAIN applications, I \in InterviewerInputs, T \in Dates}
    \cup {update_interview_run(tok, i, p) : i \in DOMAIN interviews, p \in InterviewUpdates}
    \cup {submit_feedback_run(tok, i, p) : i \in DOMAIN interviews, p \in FeedbackInputs}
    \cup {change_password_run(tok, old, new) : old \in Passwords, new \in Passwords}
    \cup {change_role_run(tok, u, r) : u \in DOMAIN users, r \in RoleInputs}
    \cup {deactivate_user_run(tok, u) : u \in DOMAIN users}
    \cup {restore_user_run(tok, u) : u \in DOMAIN users}

\* C5: a credential issued for a user before that user's password change, role
\* change or deactivation is rejected as stale: an access credential by every
\* credential-gated operation, a refresh credential by refresh, which issues
\* no new pair from it.
C5_StaleCredentialRejected ==
    \A tok \in tokens :
        Stale(tok)
        => /\ tok.type = "access"
              => \A out \in GatedOutcomes(tok) :
                    out.response \in Rejected /\ out.db = DB /\ out.issued = {}
           /\ tok.type = "refresh"
              => LET out == refresh_run(tok) IN
                 out.response \in Rejected /\ out.issued = {}

---------------------------------------------------------------------------
\* Applications per (candidate, job)

AtMostOnePerPair ==
    \A a, b \in DOMAIN applications :
        /\ applications[a].candidate_id = applications[b].candidate_id
        /\ applications[a].job_id = applications[b].job_id
        => a = b

\* candidate profile c already has an application for job j, in any status
AlreadyApplied(c, j) ==
    \E a \in DOMAIN applications :
        applications[a].candidate_id = c /\ applications[a].job_id = j

\* the candidate profile of the user behind a fresh candidate credential
ProfilesOf(tok) == {c \in DOMAIN candidates : candidates[c].user_id = tok.sub}

Applicant(tok) == FreshActor(tok) /\ ActorRole(tok) = "candidate"

\* C6 as stated: at most one application per (candidate, job), and applying
\* again to a job already applied to fails with Conflict and adds nothing.
C6_DuplicateIsConflict ==
    /\ AtMostOnePerPair
    /\ \A tok \in tokens, j \in DOMAIN jobs :
          Applicant(tok) /\ (\E c \in ProfilesOf(tok) : AlreadyApplied(c, j))
          => LET out == apply_job_run(tok, j) IN
             out.response \in Conflict /\ out.db = DB

\* C6: at most one application per (candidate, job); applying again to a job
\* already applied to fails and adds no application and no notification, with
\* Conflict while the job is open and with InvalidState once the job has left
\* open (the open-job check comes first).
C6_DuplicateRefused ==
    /\ AtMostOnePerPair
    /\ \A tok \in tokens, j \in DOMAIN jobs :
          Applicant(tok) /\ (\E c \in ProfilesOf(tok) : AlreadyApplied(c, j))
          => LET out == apply_job_run(tok, j) IN
             /\ out.db = DB
             /\ jobs[j].job_status = "open" => out.response \in Conflict
             /\ jobs[j].job_status # "open" => out.response \in InvalidState

\* a candidate whose application has moved on applied again and met Conflict
C6_Witness ==
    /\ last = HTTPException(400, "Duplicate application not allowed")
    /\ Len(applications) > 1
    /\ \E a \in DOMAIN applications : applications[a].application_status # "applied"

---------------------------------------------------------------------------
\* The interviewer's calendar

Active(i) == interviews[i].interview_status \in {"scheduled", "rescheduled"}

\* interviewer I already has a scheduled or rescheduled interview at T
Busy(I, T) ==
    \E i \in DOMAIN interviews :
        /\ interviews[i].interviewer_id = I
        /\ interviews[i].interview_date = T
        /\ Active(i)

\* C7: no two scheduled or rescheduled interviews share interviewer and datetime.
C7_NoDoubleBooking ==
    \A i1, i2 \in DOMAIN interviews :
        /\ i1 # i2
        /\ Active(i1) /\ Active(i2)
        /\ interviews[i1].interviewer_id = interviews[i2].interviewer_id
        => interviews[i1].interview_date # interviews[i2].interview_date

\* C8: create-interview by an authorized actor for (I, T) answers Conflict
\* exactly when I has a scheduled or rescheduled interview at T; on Conflict
\* nothing is stored; otherwise (completed and cancelled interviews at (I, T)
\* included) the interview is created.
C8_ConflictIffBusy ==
    \A tok \in tokens, a \in DOMAIN applications, I \in InterviewerInputs, T \in Dates :
        MayUpdateApp(tok, a)
        => LET out == create_interview_run(tok, a, I, T, "HR") IN
           /\ out.response \in Conflict <=> Busy(I, T)
           /\ Busy(I, T) => out.db = DB
           /\ ~Busy(I, T)
              => /\ Succeeded(out.response)
                 /\ Len(out.db.interviews) = Len(interviews) + 1

\* a second interview was created in a slot whose earlier interview is over
C8_Witness ==
    /\ Succeeded(last)
    /\ \E i1, i2 \in DOMAIN interviews :
          /\ i1 < i2
          /\ interviews[i1].interviewer_id = interviews[i2].interviewer_id
          /\ interviews[i1].interview_date = interviews[i2].interview_date
          /\ interviews[i1].interview_status \in {"completed", "cancelled"}
          /\ interviews[i2].interview_status = "scheduled"

---------------------------------------------------------------------------
\* Feedback

\* the actor is the interview's assigned interviewer and holds role interviewer
AssignedInterviewer(tok, i) ==
    tok.sub = interviews[i].interviewer_id /\ ActorRole(tok) = "interviewer"

HasFeedback(i) == \E f \in DOMAIN feedback : feedback[f].interview_id = i

\* C9: each interview has at most one feedback, every feedback was written by
\* the interview's assigned interviewer holding role interviewer; anyone else
\* meets PermissionDenied, the assigned interviewer's second submit meets
\* Conflict, and a refused submit leaves the stored feedback as it was.
C9_FeedbackWriteOnce ==
    /\ \A f, g \in DOMAIN feedback :
          feedback[f].interview_id = feedback[g].interview_id => f = g
    /\ \A f \in DOMAIN feedback :
          /\ feedback[f].interviewer_id = interviews[feedback[f].interview_id].interviewer_id
          /\ users[feedback[f].interviewer_id].role = "interviewer"
    /\ \A tok \in tokens, i \in DOMAIN interviews, payload \in FeedbackInputs :
          FreshActor(tok)
          => LET out == submit_feedback_run(tok, i, payload) IN
             /\ ~AssignedInterviewer(tok, i)
                => out.response \in PermissionDenied /\ out.db = DB
             /\ AssignedInterviewer(tok, i) /\ HasFeedback(i)
                => out.response \in Conflict /\ out.db = DB
             /\ AssignedInterviewer(tok, i) /\ ~HasFeedback(i)
                => /\ Succeeded(out.response)
                   /\ out.db.feedback =
                        Append(feedback, [interview_id |-> i, interviewer_id |-> tok.sub,
                                          rating |-> payload.rating,
                                          comments |-> payload.comments,
                                          recommendation |-> payload.recommendation])

\* the assigned interviewer submitted a second time and was refused
C9_Witness ==
    /\ last = HTTPException(400, "Feedback is write-once")
    /\ \E i \in DOMAIN interviews : HasFeedback(i)

---------------------------------------------------------------------------
\* C10: a successful create-interview stores, in its single commit, one new
\* interview in status scheduled, the parent application in status
\* interview_scheduled whatever it was before, and exactly one more
\* notification, addressed to that application's candidate; nothing else changes.
C10_CreateInterviewEffects ==
    \A tok \in tokens, a \in DOMAIN applications, I \in InterviewerInputs, T \in Dates :
        LET out == create_interview_run(tok, a, I, T, "HR") IN
        /\ MayUpdateApp(tok, a) /\ ~Busy(I, T) => Succeeded(out.response)
        /\ Succeeded(out.response)
           => /\ Len(out.db.interviews) = Len(interviews) + 1
              /\ SubSeq(out.db.interviews, 1, Len(interviews)) = interviews
              /\ LET row == out.db.interviews[Len(interviews) + 1] IN
                 /\ row.interview_status = "scheduled"
                 /\ row.application_id = a
                 /\ row.interviewer_id = I
                 /\ row.interview_date = T
              /\ out.db.applications =
                   [applications EXCEPT ![a].application_status = "interview_scheduled"]
              /\ BagCardinality(out.db.notifications) = BagCardinality(notifications) + 1
              /\ \E n \in BagToSet(out.db.notifications) :
                    /\ n.candidate_id = applications[a].candidate_id
                    /\ n.related_application_id = a
                    /\ out.db.notifications = notifications (+) SetToBag({n})
              /\ out.db.jobs = jobs /\ out.db.users = users
              /\ out.db.feedback = feedback /\ out.db.candidates = candidates
              /\ out.db.audit_logs = audit_logs

\* an application that had been hired is back in interview_scheduled with a
\* scheduled interview
C10_Witness ==
    /\ Succeeded(last)
    /\ \E a \in DOMAIN applications :
          /\ applications[a].application_status = "interview_scheduled"
          /\ \E n \in BagToSet(notifications) :
                n.related_application_id = a /\ n.message = <<"Application moved to", "hired">>
          /\ \E i \in DOMAIN interviews :
                interviews[i].application_id = a /\ interviews[i].interview_status = "scheduled"

---------------------------------------------------------------------------
\* C11: apply-to-job succeeds only for a fresh actor with role candidate who
\* has a Candidate profile, on a job that exists and is open; on a draft,
\* closed or archived job it fails with InvalidState and stores nothing; on
\* success exactly one application is added, in status applied, for the job
\* asked and the actor's own profile.
C11_ApplyPreconditions ==
    \A tok \in tokens, j \in JobIds :
        LET out == apply_job_run(tok, j) IN
        /\ Succeeded(out.response)
           => /\ Applicant(tok)
              /\ ProfilesOf(tok) # {}
              /\ j \in DOMAIN jobs
              /\ jobs[j].job_status = "open"
              /\ Len(out.db.applications) = Len(applications) + 1
              /\ SubSeq(out.db.applications, 1, Len(applications)) = applications
              /\ LET row == out.db.applications[Len(applications) + 1] IN
                 /\ row.application_status = "applied"
                 /\ row.job_id = j
                 /\ row.candidate_id \in ProfilesOf(tok)
        /\ ~Succeeded(out.response) => out.db = DB
        /\ /\ Applicant(tok) /\ ProfilesOf(tok) # {}
           /\ j \in DOMAIN jobs
           /\ jobs[j].job_status \in {"draft", "closed", "archived"}
           => out.response \in InvalidState

\* after a successful application the job was closed, and the next attempt to
\* apply was answered InvalidState
C11_Witness ==
    /\ last \in InvalidState
    /\ Len(applications) > 0
    /\ \E j \in DOMAIN jobs : jobs[j].job_status = "closed"

---------------------------------------------------------------------------
\* C12: update-job-state and update-application-state succeed only for an
\* actor who is admin or whose id is the owner_hr_id of the job (of the
\* application's job); on a job without owner every fresh non-admin actor is
\* answered PermissionDenied and nothing changes; update-application-state
\* also answers PermissionDenied to every fresh actor whose role is neither
\* hr nor admin.
C12_OwnerOrAdminOnly ==
    /\ \A tok \in tokens, j \in DOMAIN jobs, to \in JobStatusInputs :
          LET out == update_job_state_run(tok, j, to) IN
          /\ Succeeded(out.response) => OwnsOrAdmin(tok, j)
          /\ FreshActor(tok) /\ ActorRole(tok) # "admin" /\ jobs[j].owner_hr_id = NoUser
             => out.response \in PermissionDenied /\ out.db = DB
    /\ \A tok \in tokens, a \in DOMAIN applications, to \in AppStatusInputs :
          LET out == update_application_state_run(tok, a, to)
              j == applications[a].job_id IN
          /\ Succeeded(out.response) => OwnsOrAdmin(tok, j)
          /\ FreshActor(tok) /\ ActorRole(tok) # "admin" /\ jobs[j].owner_hr_id = NoUser
             => out.response \in PermissionDenied /\ out.db = DB
          /\ FreshActor(tok) /\ ActorRole(tok) \notin {"hr", "admin"}
             => out.response \in PermissionDenied /\ out.db = DB

\* the job without owner was closed (by the admin) and a non-admin was then
\* refused on it
C12_Witness ==
    /\ last = OwnerPermissionRequired
    /\ \E j \in DOMAIN jobs :
          jobs[j].owner_hr_id = NoUser /\ jobs[j].job_status = "closed"
    /\ \E a \in DOMAIN applications :
          jobs[applications[a].job_id].owner_hr_id = NoUser
          /\ applications[a].application_status = "shortlisted"

---------------------------------------------------------------------------
\* C13: a successful update-application-state stores, together with the new
\* status, exactly one more notification, addressed to the application's own
\* candidate and referring to that application; a refused one (unknown id,
\* permission, transition, stale credential) stores no notification.
C13_OneNotificationPerUpdate ==
    \A tok \in tokens, a \in AppIds, to \in AppStatusInputs :
        LET out == update_application_state_run(tok, a, to) IN
        /\ Succeeded(out.response)
           => /\ a \in DOMAIN applications
              /\ out.db.applications = [applications EXCEPT ![a].application_status = to]
              /\ BagCardinality(out.db.notifications) = BagCardinality(notifications) + 1
              /\ \E n \in BagToSet(out.db.notifications) :
                    /\ n.candidate_id = applications[a].candidate_id
                    /\ n.related_application_id = a
                    /\ n.message = <<"Application moved to", to>>
                    /\ out.db.notifications = notifications (+) SetToBag({n})
        /\ ~Succeeded(out.response)
           => out.db.notifications = notifications /\ out.db.applications = applications

\* the second candidate's application was rejected and the notification of it
\* went to that candidate
C13_Witness ==
    /\ Succeeded(last)
    /\ Len(applications) > 1
    /\ LET a == Len(applications) IN
       /\ applications[a].application_status = "rejected"
       /\ BagIn(Notification(applications[a].candidate_id,
                             <<"Application moved to", "rejected">>,
                             "action_required", a), notifications)
       /\ applications[a].candidate_id # applications[1].candidate_id

---------------------------------------------------------------------------
\* C14: in every committed state, whether a request is in flight or one has
\* ended half-way, each application has its 'Application submitted'
\* notification.
C14_ApplicationHasNotification ==
    \A a \in DOMAIN applications :
        BagIn(Notification(applications[a].candidate_id, <<"Application submitted">>,
                           "info", a), notifications)

---------------------------------------------------------------------------
\* Deactivation and restore, read off the audit log

\* user u was deactivated and, later, restored
Restored(u) ==
    \E i, k \in DOMAIN audit_logs :
        /\ i < k
        /\ audit_logs[i].action = <<"user_deactivated", u>>
        /\ audit_logs[k].action = <<"user_restored", u>>

\* C15: restore-user stores is_active = TRUE and status = active and nothing
\* else of the user (the generation stays); so once a user has been
\* deactivated and restored, the credentials of an older generation are still
\* rejected as stale by every credential-gated operation and by refresh, and
\* only a credential of the current generation succeeds.
C15_RestoreKeepsGeneration ==
    /\ \A tok \in tokens, u \in DOMAIN users :
          LET out == restore_user_run(tok, u) IN
          Succeeded(out.response)
          => /\ out.db.users = [users EXCEPT ![u].is_active = TRUE,
                                             ![u].status = "active"]
             /\ out.db.users[u].token_version = users[u].token_version
    /\ \A tok \in tokens :
          Restored(tok.sub) /\ Stale(tok)
          => /\ tok.type = "access"
                => \A out \in GatedOutcomes(tok) :
                      out.response \in Rejected /\ out.db = DB /\ out.issued = {}
             /\ tok.type = "refresh"
                => LET out == refresh_run(tok) IN
                   out.response \in Rejected /\ out.issued = {}

---------------------------------------------------------------------------
\* Accounts

Emails == {"a@x", "c@x", "n@x", "m@x"}

\* the account may log in: status active and the active flag set
Usable(user) == user.status = "active" /\ user.is_active

\* what each handler that writes a user row would store when handed tok
UserOutcomes(tok) ==
    {update_user_run(tok, u, payload) : u \in DOMAIN users, payload \in UserUpdates}
    \cup {restore_user_run(tok, u) : u \in DOMAIN users}
    \cup {deactivate_user_run(tok, u) : u \in DOMAIN users}
    \cup {change_role_run(tok, u, r) : u \in DOMAIN users, r \in RoleInputs}
    \cup {change_password_run(tok, old, new) : old \in Passwords, new \in Passwords}

\* C16: register stores a new user with status pending, the active flag set
\* and generation 1, no Candidate profile and no credential, and answers
\* Conflict, storing nothing, when any user (active or not) has the email;
\* login and refresh issue credentials only for a user with status active and
\* the active flag set; an account becomes usable only through an operation
\* of a fresh admin, so a registered account has no credential while pending.
C16_RegisterThenActivate ==
    /\ \A email \in Emails, role \in {"candidate", "admin"} :
          LET out == register_run("new", email, "pw", role)
              used == \E u \in DOMAIN users : users[u].email = email IN
          /\ out.issued = {}
          /\ used => out.response \in Conflict /\ out.db = DB
          /\ ~used
             => /\ Succeeded(out.response)
                /\ Len(out.db.users) = Len(users) + 1
                /\ LET row == out.db.users[Len(users) + 1] IN
                   /\ row.status = "pending" /\ row.is_active /\ row.token_version = 1
                   /\ row.email = email /\ row.role = role
                /\ out.db = [DB EXCEPT !.users = out.db.users]
                /\ SubSeq(out.db.users, 1, Len(users)) = users
    /\ \A email \in Emails, password \in Passwords :
          \A tok \in login_run(email, password).issued :
              Usable(users[tok.sub]) /\ users[tok.sub].email = email
    /\ \A tok \in tokens :
          \A new \in refresh_run(tok).issued : Usable(users[tok.sub]) /\ new.sub = tok.sub
    /\ \A tok \in tokens :
          \A out \in UserOutcomes(tok), u \in DOMAIN users :
              ~Usable(users[u]) /\ Usable(out.db.users[u])
              => FreshActor(tok) /\ ActorRole(tok) = "admin"
    /\ \A tok \in tokens : users[tok.sub].status # "pending"

\* the registered account was activated and has logged in; a second
\* registration with its email was then refused
C16_Witness ==
    /\ last = HTTPException(400, "Email already exists")
    /\ Len(users) > Len(SeedUsers)
    /\ \E tok \in tokens : tok.sub = Len(users) /\ ~Stale(tok)

---------------------------------------------------------------------------
\* C17: update-user succeeds only for a fresh actor who is the target or an
\* admin; a fresh non-admin whose request carries a status is answered
\* PermissionDenied and nothing is stored, whatever name and email come with
\* it; a successful request stores the fields it carries, leaves the others
\* as they were and never touches role, generation, password or active flag,
\* nor any other row; a failed request stores nothing.
C17_UpdateUserRules ==
    \A tok \in tokens, u \in UpdateTargets, payload \in UserUpdates :
        LET out == update_user_run(tok, u, payload) IN
        /\ Succeeded(out.response)
           => /\ FreshActor(tok)
              /\ tok.sub = u \/ ActorRole(tok) = "admin"
              /\ payload.status # NULL => ActorRole(tok) = "admin"
              /\ LET old == users[u]
                     new == out.db.users[u] IN
                 /\ new.name = IF payload.name = NULL THEN old.name ELSE payload.name
                 /\ new.email = IF payload.email = NULL THEN old.email ELSE payload.email
                 /\ new.status = IF payload.status = NULL THEN old.status ELSE payload.status
                 /\ new.role = old.role
                 /\ new.token_version = old.token_version
                 /\ new.password = old.password
                 /\ new.is_active = old.is_active
              /\ out.db = [DB EXCEPT !.users[u] = out.db.users[u]]
        /\ ~Succeeded(out.response) => out.db = DB
        /\ FreshActor(tok) /\ ActorRole(tok) # "admin" /\ payload.status # NULL
           => out.response \in PermissionDenied /\ out.db = DB

\* a candidate renamed themself, then asked for a status together with a new
\* email and was refused, the stored email staying as it was
C17_Witness ==
    /\ last = InsufficientPermissions
    /\ users[4].name = "renamed"
    /\ users[4].email = "c@x"
    /\ users[4].status = "active"

---------------------------------------------------------------------------
\* the store after the single-application update has been applied to the
\* first n ids of the list, one after the other
RECURSIVE AfterFirst(_, _, _, _)
AfterFirst(n, tok, ids, status) ==
    IF n = 0 THEN DB
    ELSE UpdateAppRun(AfterFirst(n - 1, tok, ids, status), tok, ids[n], status).db

SubOperation(k, tok, ids, status) ==
    UpdateAppRun(AfterFirst(k - 1, tok, ids, status), tok, ids[k], status)

\* k is the first position of the list whose sub-operation fails
FirstFailure(k, tok, ids, status) ==
    /\ k \in 1..Len(ids)
    /\ ~Succeeded(SubOperation(k, tok, ids, status).response)
    /\ \A i \in 1..(k - 1) : Succeeded(SubOperation(i, tok, ids, status).response)

BulkStatuses == {"shortlisted", "rejected"}

BulkCall(tok, ids, status) ==
    IF status = "shortlisted" THEN bulk_shortlist_run(tok, ids)
    ELSE bulk_reject_run(tok, ids)

\* C18: when the sub-operation at position k of a bulk list is the first to
\* fail, every application at a position before k has the new status and one
\* notification more per position is stored, and the application of the
\* failing id is as it was before its sub-operation (as it was before the
\* request, when the id does not occur earlier in the list).
C18_EarlierSuccessesStay ==
    \A tok \in tokens, ids \in BulkInputs(BulkIds), status \in BulkStatuses :
        \A k \in 1..Len(ids) :
            FirstFailure(k, tok, ids, status)
            => LET out == BulkCall(tok, ids, status) IN
               /\ \A i \in 1..(k - 1) :
                     out.db.applications[ids[i]].application_status = status
               /\ BagCardinality(out.db.notifications)
                    = BagCardinality(notifications) + (k - 1)
               /\ \A i \in 1..(k - 1) :
                     \E n \in BagToSet(out.db.notifications) :
                        /\ n.related_application_id = ids[i]
                        /\ n.message = <<"Application moved to", status>>
                        /\ CopiesIn(n, out.db.notifications) > CopiesIn(n, notifications)
               /\ Len(out.db.applications) = Len(applications)
               /\ ids[k] \in DOMAIN applications
                  => /\ out.db.applications[ids[k]]
                          = AfterFirst(k - 1, tok, ids, status).applications[ids[k]]
                     /\ (\A i \in 1..(k - 1) : ids[i] # ids[k])
                        => out.db.applications[ids[k]] = applications[ids[k]]

\* the hr user sent a bulk request naming their own application and then the
\* application of the job without an owner: the first was shortlisted and
\* notified, the second refused and left applied
C18_Witness ==
    /\ last = OwnerPermissionRequired
    /\ Len(applications) = 2
    /\ \E a, b \in DOMAIN applications :
          /\ jobs[applications[a].job_id].owner_hr_id = 2
          /\ jobs[applications[b].job_id].owner_hr_id = NoUser
          /\ applications[a].application_status = "shortlisted"
          /\ applications[b].application_status = "applied"
          /\ \E n \in BagToSet(notifications) :
                n.related_application_id = a /\ n.message = <<"Application moved to", "shortlisted">>

---------------------------------------------------------------------------
\* C19: a bulk request applies the single-application update to every id of
\* its list, in list order, a failing id being skipped: the store afterwards
\* is the one reached by applying the update to each id in turn, so an id
\* whose update is authorized and valid is updated even after a failure
\* earlier in the list, and the response carries the length of the list.
C19_PerItemIsolation ==
    \A tok \in tokens, ids \in BulkInputs(BulkIds), status \in BulkStatuses :
        tok.type = "access"
        => LET out == BulkCall(tok, ids, status) IN
           /\ out.db = AfterFirst(Len(ids), tok, ids, status)
           /\ out.response = BulkUpdated(ids)

---------------------------------------------------------------------------
\* the applications of the actor's own Candidate profile
OwnApplications(tok) ==
    {a \in DOMAIN applications : applications[a].candidate_id \in ProfilesOf(tok)}

\* the applications whose job the actor owns
OwnedApplications(tok) ==
    {a \in DOMAIN applications : jobs[applications[a].job_id].owner_hr_id = tok.sub}

VisibleTo(tok) ==
    IF ActorRole(tok) = "admin" THEN DOMAIN applications
    ELSE IF ActorRole(tok) = "candidate" THEN OwnApplications(tok)
    ELSE IF ActorRole(tok) = "hr" THEN OwnedApplications(tok)
    ELSE {}

\* the store with application a, which the actor may not see, altered: given
\* another status, handed to another candidate the actor is not, or moved to
\* a job the actor does not own
ForeignVariants(tok, a) ==
    {[DB EXCEPT !.applications[a] = row] :
        row \in {r \in [candidate_id : DOMAIN candidates, job_id : DOMAIN jobs,
                        application_status : DOMAIN APP_TRANSITIONS] :
                    /\ r.candidate_id \notin ProfilesOf(tok)
                    /\ jobs[r.job_id].owner_hr_id # tok.sub}}

\* C20: to a fresh actor list-applications returns every application for an
\* admin, exactly those of the actor's own Candidate profile for a candidate
\* (none without a profile), exactly those of the jobs the actor owns for an
\* hr user, and none for any other role; and what a candidate or hr actor
\* gets is the same whatever the applications of other candidates on jobs
\* owned by others are.
C20_ListVisibility ==
    \A tok \in tokens :
        FreshActor(tok)
        => LET out == list_applications_run(tok) IN
           /\ out.response = Listed({<<a, applications[a]>> : a \in VisibleTo(tok)})
           /\ out.db = DB
           /\ ActorRole(tok) = "candidate" /\ ProfilesOf(tok) = {}
              => out.response.applications = {}
           /\ ActorRole(tok) \in {"candidate", "hr"}
              => \A a \in DOMAIN applications \ VisibleTo(tok) :
                    \A d \in ForeignVariants(tok, a) :
                       ApplicationsFor(d, tok.sub) = out.response.applications

\* two applications of one candidate, on the hr user's job and on the
\* admin's job: the hr user has just been shown the first alone
C20_Witness ==
    /\ Len(applications) = 2
    /\ applications[1].candidate_id = applications[2].candidate_id
    /\ \E a, b \in DOMAIN applications :
          /\ jobs[applications[a].job_id].owner_hr_id = 2
          /\ jobs[applications[b].job_id].owner_hr_id = 1
          /\ last = Listed({<<a, applications[a]>>})

---------------------------------------------------------------------------
\* Audit log

\* the four security operations, as handed credential tok
SecurityOutcomes(tok) ==
    {change_password_run(tok, old, new) : old \in Passwords, new \in Passwords}
    \cup {change_role_run(tok, u, r) : u \in DOMAIN users \cup {0}, r \in RoleInputs}
    \cup {deactivate_user_run(tok, u) : u \in DOMAIN users \cup {0}}
    \cup {restore_user_run(tok, u) : u \in DOMAIN users \cup {0}}

\* every other operation that writes the store or issues credentials
OtherOutcomes(tok) ==
    {create_job_run(tok), refresh_run(tok)}
    \cup {update_job_state_run(tok, j, to) : j \in DOMAIN jobs, to \in JobStatusInputs}
    \cup {apply_job_run(tok, j) : j \in DOMAIN jobs}
    \cup {update_application_state_run(tok, a, to) :
            a \in DOMAIN applications, to \in AppStatusInputs}
    \cup {bulk_shortlist_run(tok, ids) : ids \in BulkInputs(DOMAIN applications)}
    \cup {bulk_reject_run(tok, ids) : ids \in BulkInputs(DOMAIN applications)}
    \cup {create_interview_run(tok, a, I, T, "HR") :
            a \in DOMAIN applications, I \in InterviewerInputs, T \in Dates}
    \cup {update_interview_run(tok, i, p) : i \in DOMAIN interviews, p \in InterviewUpdates}
    \cup {submit_feedback_run(tok, i, p) : i \in DOMAIN interviews, p \in FeedbackInputs}
    \cup {login_run(email, password) : email \in LoginEmails, password \in Passwords}
    \cup {register_run("new", email, "pw", "candidate") : email \in NewEmails}
    \cup {update_user_run(tok, u, payload) : u \in DOMAIN users, payload \in UserUpdates}
    \cup {list_applications_run(tok)}

IsPrefix(s, t) == Len(s) <= Len(t) /\ \A i \in DOMAIN s : t[i] = s[i]

\* C21: a successful change-password, change-role, deactivate-user or
\* restore-user stores the log with exactly one entry more, whose actor is the
\* user of the credential, together with its change of the users; a failed
\* one stores nothing; and every other operation stores the log as it was,
\* entry for entry.
C21_AuditAppendOnly ==
    \A tok \in tokens :
        /\ \A out \in SecurityOutcomes(tok) :
              /\ Succeeded(out.response)
                 => /\ Len(out.db.audit_logs) = Len(audit_logs) + 1
                    /\ IsPrefix(audit_logs, out.db.audit_logs)
                    /\ out.db.audit_logs[Len(audit_logs) + 1].user_id = tok.sub
                    /\ FreshActor(tok)
              /\ ~Succeeded(out.response) => out.db = DB
        /\ \A out \in OtherOutcomes(tok) : out.db.audit_logs = audit_logs

\* the admin changed the hr user's role and deactivated them, and the hr user
\* had changed their password: three entries, each with its actor
C21_Witness ==
    /\ Len(audit_logs) = 3
    /\ \E i, k, m \in DOMAIN audit_logs :
          /\ audit_logs[i] = [user_id |-> 2, action |-> <<"password_changed">>]
          /\ audit_logs[k].user_id = 1 /\ audit_logs[k].action[1] = "role_changed"
          /\ audit_logs[m] = [user_id |-> 1, action |-> <<"user_deactivated", 2>>]
    /\ last = OK

---------------------------------------------------------------------------
\* C22: update-interview by any fresh actor. A supplied status, whatever its
\* value, is stored only when it is an edge from the current status; any
\* other supplied value is answered InvalidTransition and the interview is
\* stored as it was. With no status supplied the date and type supplied are
\* stored and the status stays. Hence every stored interview status is one of
\* scheduled, rescheduled, completed, cancelled.
C22_InterviewUpdateValidated ==
    /\ \A tok \in tokens, i \in DOMAIN interviews, payload \in InterviewUpdates :
          FreshActor(tok)
          => LET out == update_interview_run(tok, i, payload)
                 old == interviews[i]
                 new == out.db.interviews[i] IN
             IF payload.interview_status = NULL
             THEN /\ Succeeded(out.response)
                  /\ new.interview_status = old.interview_status
                  /\ new.interview_date = IF payload.interview_date = NULL
                                          THEN old.interview_date
                                          ELSE payload.interview_date
                  /\ new.interview_type = IF payload.interview_type = NULL
                                          THEN old.interview_type
                                          ELSE payload.interview_type
             ELSE IF <<old.interview_status, payload.interview_status>> \in InterviewGraph
             THEN Succeeded(out.response)
                  /\ new.interview_status = payload.interview_status
             ELSE out.response \in InvalidTransition /\ out.db = DB
    /\ \A i \in DOMAIN interviews :
          interviews[i].interview_status
             \in {"scheduled", "rescheduled", "completed", "cancelled"}

---------------------------------------------------------------------------
\* C23: a request that carries an access credential of another generation
\* than the stored user's is answered CredentialStale by every
\* credential-gated writing operation, change-role, deactivate-user and
\* restore-user included, whatever role the credential carries; it is never
\* answered PermissionDenied and it stores nothing.
C23_FreshnessBeforeRole ==
    \A tok \in tokens :
        tok.type = "access" /\ Stale(tok)
        => \A out \in GatedOutcomes(tok)
                      \cup {update_user_run(tok, u, payload) :
                              u \in DOMAIN users, payload \in UserUpdates} :
              /\ out.response \in CredentialStale
              /\ out.response \notin PermissionDenied
              /\ out.db = DB

---------------------------------------------------------------------------
\* Requests in flight together

\* C24: with the check and the commit of a request taken as separate steps
\* among those of other requests, no two applications are ever stored for
\* one (candidate, job), and no two interviews that are scheduled or
\* rescheduled are ever stored for one interviewer and datetime.
C24_UniqueUnderConcurrency ==
    /\ AtMostOnePerPair
    /\ \A i1, i2 \in DOMAIN interviews :
          /\ Active(i1) /\ Active(i2)
          /\ interviews[i1].interviewer_id = interviews[i2].interviewer_id
          /\ interviews[i1].interview_date = interviews[i2].interview_date
          => i1 = i2

\* C25: when state-update requests on one entity are in flight together, the
\* commit of each moves the stored status along an edge of the graph from
\* the status stored at that moment, whatever the other requests committed
\* since it read: the committed statuses of an application, and of an
\* interview, form a path of the graph.
C25_CommitsFollowEdges ==
    [][\A request \in inflight \ inflight' :
          /\ request.op = "update_application_state_write"
             => <<applications[request.application_id].application_status,
                  applications'[request.application_id].application_status>> \in AppGraph
          /\ request.op = "update_interview_write"
             => <<interviews[request.interview_id].interview_status,
                  interviews'[request.interview_id].interview_status>> \in InterviewGraph
      ]_vars

---------------------------------------------------------------------------
\* C26: no credential-gated operation succeeds when handed the access
\* credential of a user whose stored account is not usable at that moment
\* (status other than active, or the active flag cleared), however the
\* account came to be so.
C26_InactiveActorRefused ==
    \A tok \in tokens :
        tok.type = "access" /\ ~Usable(users[tok.sub])
        => \A out \in GatedOutcomes(tok)
                      \cup {update_user_run(tok, u, payload) :
                              u \in DOMAIN users, payload \in UserUpdates}
                      \cup {list_applications_run(tok)} :
              ~Succeeded(out.response)

---------------------------------------------------------------------------
\* C27: every access credential that passes the freshness check for its
\* user carries that user's stored role; login and refresh issue credentials
\* with the stored role and generation, and an operation that stores another
\* role for a user stores a higher generation with it.
C27_FreshCredentialHasStoredRole ==
    /\ \A tok \in tokens :
          tok.type = "access" /\ ~Stale(tok) => tok.role = users[tok.sub].role
    /\ \A tok \in tokens :
          \A out \in {refresh_run(tok)}
                     \cup {login_run(email, password) :
                             email \in LoginEmails, password \in Passwords} :
             \A new \in out.issued :
                /\ new.token_version = users[new.sub].token_version
                /\ new.type = "access" => new.role = users[new.sub].role
    /\ \A tok \in tokens :
          \A out \in UserOutcomes(tok) :
             \A u \in DOMAIN users :
                out.db.users[u].role # users[u].role
                => out.db.users[u].token_version > users[u].token_version

\* the hr user was made interviewer and logged in again: the credential of
\* the old generation still says hr, the fresh one says interviewer
C27_Witness ==
    /\ users[2].role = "interviewer"
    /\ \E old, new \in tokens :
          /\ old.type = "access" /\ old.sub = 2 /\ old.role = "hr" /\ Stale(old)
          /\ new.type = "access" /\ new.sub = 2 /\ new.role = "interviewer" /\ ~Stale(new)

---------------------------------------------------------------------------
\* Statuses of rows that have children

\* in store d an application with an interview is interview_scheduled, hired
\* or rejected, and a job with an application is not draft
ParentsAdvanced(d) ==
    /\ \A i \in DOMAIN d.interviews :
          d.applications[d.interviews[i].application_id].application_status
             \in {"interview_scheduled", "hired", "rejected"}
    /\ \A a \in DOMAIN d.applications :
          d.jobs[d.applications[a].job_id].job_status # "draft"

\* C28: with every operation run as one step, an application that has an
\* interview, in whatever interview status, is interview_scheduled, hired or
\* rejected, and a job that has an application is not draft, in every
\* reachable state and in the store every operation would leave from it.
C28_ParentsAdvanced ==
    /\ ParentsAdvanced(DB)
    /\ \A tok \in tokens : \A out \in GatedOutcomes(tok) : ParentsAdvanced(out.db)

\* a closed job whose application was hired after its interview was held
C28_Witness ==
    /\ \E i \in DOMAIN interviews :
          /\ interviews[i].interview_status = "completed"
          /\ applications[interviews[i].application_id].application_status = "hired"
          /\ jobs[applications[interviews[i].application_id].job_id].job_status = "closed"
    /\ Succeeded(last)

====
